---- MODULE Spec2Model ----
(***************************************************************************)
(* WifiHalService (wifi_hal_legacy/wifi_hal_service.cpp): the start/stop   *)
(* lifecycle of the legacy wifi HAL, and the failure-reason translation    *)
(* of failure_reason_util.cpp.                                             *)
(*                                                                         *)
(* Three threads of execution touch the service object:                    *)
(*   - the caller thread, which runs the public entry points one at a      *)
(*     time (registerEventCallback, isStarted, start, stop);               *)
(*   - the worker thread spawned by start(), which runs DoHalEventLoop;    *)
(*   - the looper (dispatcher) thread, which runs the closure that         *)
(*     DoHalEventLoop posts with PostTask.                                 *)
(* The source takes no lock anywhere, so the steps of the three threads    *)
(* interleave.  A step is an entry point up to its return or up to its     *)
(* blocking call of wifi_cleanup, and after that each statement that       *)
(* touches a member of the service; a call of FinishHalCleanup is one      *)
(* step.                                                                   *)
(***************************************************************************)
EXTENDS Integers, Sequences, FiniteSets, TLC

(***************************************************************************)
(* Bounds of the model.                                                    *)
(***************************************************************************)
NumObservers == 2
MaxCalls == 3
MaxDescLen == 2

Observers == 1..NumObservers

(***************************************************************************)
(* State enum and engine error codes.                                      *)
(***************************************************************************)
STOPPED == "STOPPED"
STARTED == "STARTED"
STOPPING == "STOPPING"
State == {STOPPED, STARTED, STOPPING}

WIFI_SUCCESS == "WIFI_SUCCESS"
\* wifi_error values the engine can hand back; WIFI_ERROR_NONE is the same
\* enumerator value as WIFI_SUCCESS, "WIFI_ERROR_OTHER" stands for any value
\* outside the enum.
WIFI_ERROR_NONE == WIFI_SUCCESS
wifi_error ==
  { WIFI_SUCCESS, "WIFI_ERROR_UNKNOWN", "WIFI_ERROR_UNINITIALIZED",
    "WIFI_ERROR_NOT_SUPPORTED", "WIFI_ERROR_NOT_AVAILABLE",
    "WIFI_ERROR_INVALID_ARGS", "WIFI_ERROR_INVALID_REQUEST_ID",
    "WIFI_ERROR_TIMED_OUT", "WIFI_ERROR_TOO_MANY_REQUESTS",
    "WIFI_ERROR_OUT_OF_MEMORY", "WIFI_ERROR_OTHER" }

(***************************************************************************)
(* failure_reason_util.cpp.  A std::string is a sequence of characters;    *)
(* the literals of the source are single tokens, NUL is the character 0.   *)
(***************************************************************************)
NUL == "\\0"

\* description.data() hands a C string to hidl_string: the text up to the
\* first NUL character.
CStr(s) ==
  LET nuls == { i \in 1..Len(s) : s[i] = NUL }
  IN  IF nuls = {} THEN s
      ELSE SubSeq(s, 1, (CHOOSE i \in nuls : \A j \in nuls : i <= j) - 1)

CreateFailureReason(reason, description) ==
  [ reason |-> reason, description |-> CStr(description) ]

CreateFailureReasonLegacyError(error, desc) ==
  CASE error \in {"WIFI_ERROR_UNINITIALIZED", "WIFI_ERROR_NOT_AVAILABLE"} ->
         CreateFailureReason("NOT_AVAILABLE", desc)
    [] error = "WIFI_ERROR_NOT_SUPPORTED" ->
         CreateFailureReason("NOT_SUPPORTED", desc)
    [] error \in {"WIFI_ERROR_INVALID_ARGS", "WIFI_ERROR_INVALID_REQUEST_ID"} ->
         CreateFailureReason("INVALID_ARGS", desc)
    [] error = "WIFI_ERROR_TIMED_OUT" ->
         CreateFailureReason("UNKNOWN", desc \o <<", timed out">>)
    [] error = "WIFI_ERROR_TOO_MANY_REQUESTS" ->
         CreateFailureReason("UNKNOWN", desc \o <<", too many requests">>)
    [] error = "WIFI_ERROR_OUT_OF_MEMORY" ->
         CreateFailureReason("UNKNOWN", desc \o <<", out of memory">>)
    [] OTHER ->
         CreateFailureReason("UNKNOWN", <<"unknown">>)

(***************************************************************************)
(* State.                                                                  *)
(***************************************************************************)
VARIABLES
  state,                                 \* state_
  awaiting_hal_cleanup_command,          \* awaiting_hal_cleanup_command_
  awaiting_hal_event_loop_termination,   \* awaiting_hal_event_loop_termination_
  callbacks,                             \* callbacks_
  event_loop_thread,                     \* event_loop_thread_.joinable()
  pcCaller,        \* where the caller thread is: "idle", or inside stop()
  pcWorker,        \* where the worker thread is inside DoHalEventLoop
  pcLooper,        \* where the looper thread is inside the posted closure
  looperQueue,     \* closures posted to looper_ and not yet picked up
  halCleanupCalls, \* engine: wifi_cleanup calls on the current hal_handle_
  aborted,         \* LOG(FATAL) or std::terminate ended the process
  \* what the last step did, as its environment sees it
  op,              \* the step
  lastBroadcast,   \* the callbacks it invoked
  isStartedRet,    \* the value isStarted() returned
  halStatus,       \* the status wifi_initialize returned to it
  nInit,           \* wifi_initialize calls so far
  nSpawn,          \* worker threads constructed so far
  nCleanup,        \* wifi_cleanup calls so far
  \* history of the current stop cycle (reset when stop() leaves STARTED)
  cleanupReturned,   \* wifi_cleanup has returned
  eventLoopTaskRan,  \* the posted closure has started
  firstArrival,      \* which flag was cleared first
  finalizedBy,       \* who ran the FinishHalCleanup calls that broadcast
  stopFinishRan,     \* stop() has made its FinishHalCleanup call
  taskFinishRan,     \* the closure has made its FinishHalCleanup call
  stopsWhileStopping, \* a stop() call arrived in state STOPPING
  \* a call of CreateFailureReasonLegacyError on its own
  tr,              \* its arguments and, once it has returned, its result
  \* the members of the service that code running on the worker thread has
  \* read or written
  workerAccessed,
  \* the threads running DoHalEventLoop: constructed at line 90 and not yet
  \* past PostTask at line 129
  liveWorkers,
  \* the range-for of FinishHalCleanup (lines 139-141) running on the looper
  \* thread
  loopCalls,       \* how often it has invoked each observer
  iterationRaced   \* callbacks_ was inserted into while it was running

codeVars ==
  << state, awaiting_hal_cleanup_command, awaiting_hal_event_loop_termination,
     callbacks, event_loop_thread, pcCaller, pcWorker, pcLooper, looperQueue,
     halCleanupCalls, aborted >>
obsVars ==
  << op, lastBroadcast, isStartedRet, halStatus, nInit, nSpawn, nCleanup >>
cycleVars ==
  << cleanupReturned, eventLoopTaskRan, firstArrival, finalizedBy,
     stopFinishRan, taskFinishRan, stopsWhileStopping >>

flags == << awaiting_hal_cleanup_command, awaiting_hal_event_loop_termination >>
threads == << pcCaller, pcWorker, pcLooper, looperQueue >>
counters == << nInit, nSpawn, nCleanup >>
iterVars == << loopCalls, iterationRaced >>
vars == << codeVars, obsVars, cycleVars, tr, workerAccessed, liveWorkers, iterVars >>

NoReason == [ reason |-> "none", description |-> <<>> ]

\* for (auto& callback : callbacks_) callback->ev(reason): how often each
\* observer is invoked.
Broadcast(ev, reason) ==
  [ ev |-> ev, reason |-> reason,
    calls |-> [ o \in Observers |-> IF o \in callbacks THEN 1 ELSE 0 ] ]

\* a step that invokes no callback
NoBroadcast ==
  [ ev |-> "none", reason |-> NoReason, calls |-> [ o \in Observers |-> 0 ] ]

(***************************************************************************)
(* Construction.                                                           *)
(***************************************************************************)
\* The constructor (lines 49-53) does not assign the two flags; they start
\* false, as the data model of the service states for every state that is
\* not STOPPING.
InitFlags ==
  /\ awaiting_hal_cleanup_command = FALSE
  /\ awaiting_hal_event_loop_termination = FALSE

\* the arguments of the translation: an engine status and a description
TrIdle == [ error |-> "none", desc |-> <<>>, result |-> NoReason, done |-> FALSE ]

ServiceInit ==
  /\ state = STOPPED
  /\ InitFlags
  /\ callbacks = {}
  /\ event_loop_thread = FALSE
  /\ pcCaller = "idle"
  /\ pcWorker = "none"
  /\ pcLooper = "idle"
  /\ looperQueue = 0
  /\ halCleanupCalls = 0
  /\ aborted = FALSE
  /\ op = "init"
  /\ lastBroadcast = NoBroadcast
  /\ isStartedRet = FALSE
  /\ halStatus = "none"
  /\ nInit = 0
  /\ nSpawn = 0
  /\ nCleanup = 0
  /\ cleanupReturned = FALSE
  /\ eventLoopTaskRan = FALSE
  /\ firstArrival = "none"
  /\ finalizedBy = <<>>
  /\ stopFinishRan = FALSE
  /\ taskFinishRan = FALSE
  /\ stopsWhileStopping = FALSE
  /\ workerAccessed = {}
  /\ liveWorkers = 0
  /\ loopCalls = [ o \in Observers |-> 0 ]
  /\ iterationRaced = FALSE

Init ==
  /\ ServiceInit
  /\ tr = TrIdle

(***************************************************************************)
(* registerEventCallback and isStarted.                                    *)
(***************************************************************************)
\* line 57 on the caller thread while the looper thread is inside the
\* range-for of lines 139-141: no lock orders the two
InsertRacesWithLoop(callback) ==
  pcLooper = "task_139" /\ callback \notin callbacks

registerEventCallback(callback) ==
  /\ pcCaller = "idle"
  /\ ~aborted
  /\ callbacks' = callbacks \cup {callback}
  /\ iterationRaced' = (iterationRaced \/ InsertRacesWithLoop(callback))
  /\ op' = "registerEventCallback"
  /\ halStatus' = "none"
  /\ lastBroadcast' = NoBroadcast
  /\ UNCHANGED << state, flags, event_loop_thread, threads, halCleanupCalls,
                  aborted, isStartedRet, tr, workerAccessed, liveWorkers,
                  loopCalls, counters, cycleVars >>

\* line 62 comparing with STARTED
isStartedValue_OnlyStarted == state = STARTED

\* line 62
isStartedValue == state # STOPPED

isStarted ==
  /\ pcCaller = "idle"
  /\ ~aborted
  /\ isStartedRet' = isStartedValue
  /\ op' = "isStarted"
  /\ halStatus' = "none"
  /\ lastBroadcast' = NoBroadcast
  /\ UNCHANGED << codeVars, counters, cycleVars, tr, iterVars, workerAccessed, liveWorkers >>

(***************************************************************************)
(* start().                                                                *)
(***************************************************************************)
\* lines 66-70 without the broadcast
start_Started_Silent ==
  /\ lastBroadcast' = NoBroadcast
  /\ op' = "start_started"
  /\ halStatus' = "none"
  /\ UNCHANGED << state, event_loop_thread, pcWorker, halCleanupCalls,
                  aborted, counters, liveWorkers >>

\* lines 66-70
start_Started ==
  /\ lastBroadcast' = Broadcast("onStart", NoReason)
  /\ op' = "start_started"
  /\ halStatus' = "none"
  /\ UNCHANGED << state, event_loop_thread, pcWorker, halCleanupCalls,
                  aborted, counters, liveWorkers >>

\* lines 71-77 taken for the STARTED branch
start_Stopping_AsStarted ==
  /\ lastBroadcast' = Broadcast("onStart", NoReason)
  /\ op' = "start_stopping"
  /\ halStatus' = "none"
  /\ UNCHANGED << state, event_loop_thread, pcWorker, halCleanupCalls,
                  aborted, counters, liveWorkers >>

\* lines 71-77
start_Stopping ==
  /\ lastBroadcast' =
       Broadcast("onStartFailure",
                 CreateFailureReason("NOT_AVAILABLE", <<"HAL is stopping">>))
  /\ op' = "start_stopping"
  /\ halStatus' = "none"
  /\ UNCHANGED << state, event_loop_thread, pcWorker, halCleanupCalls,
                  aborted, counters, liveWorkers >>

\* lines 81-88 without the return: falls through to lines 90-95
start_InitFailed_NoReturn(status) ==
  /\ event_loop_thread' = TRUE
  /\ pcWorker' = "wifi_event_loop"
  /\ halCleanupCalls' = 0
  /\ state' = STARTED
  /\ nSpawn' = nSpawn + 1
  /\ liveWorkers' = liveWorkers + 1
  /\ lastBroadcast' = Broadcast("onStart", NoReason)
  /\ op' = "start_init_failed"
  /\ UNCHANGED aborted

\* lines 81-88: wifi_initialize returned an error
start_InitFailed(status) ==
  /\ lastBroadcast' =
       Broadcast("onStartFailure",
                 CreateFailureReasonLegacyError(status,
                                                <<"Failed to initialize HAL">>))
  /\ op' = "start_init_failed"
  /\ UNCHANGED << state, event_loop_thread, pcWorker, halCleanupCalls,
                  aborted, nSpawn, liveWorkers >>

\* lines 90-95: the move assignment to event_loop_thread_ calls
\* std::terminate when the thread it holds is still joinable.
start_Spawn ==
  /\ nSpawn' = nSpawn + 1
  /\ liveWorkers' = liveWorkers + 1
  /\ IF event_loop_thread
       THEN /\ aborted' = TRUE
            /\ lastBroadcast' = NoBroadcast
            /\ op' = "start_terminate"
            /\ UNCHANGED << state, event_loop_thread, pcWorker,
                            halCleanupCalls >>
       ELSE /\ event_loop_thread' = TRUE
            /\ pcWorker' = "wifi_event_loop"
            /\ halCleanupCalls' = 0
            /\ state' = STARTED
            /\ lastBroadcast' = Broadcast("onStart", NoReason)
            /\ op' = "start_ok"
            /\ UNCHANGED aborted

\* lines 79-95
start_Initialize(status) ==
  /\ nInit < MaxCalls
  /\ nInit' = nInit + 1
  /\ halStatus' = status
  /\ UNCHANGED nCleanup
  /\ IF status # WIFI_SUCCESS THEN start_InitFailed(status) ELSE start_Spawn

start ==
  /\ pcCaller = "idle"
  /\ ~aborted
  /\ IF state = STARTED THEN start_Started
     ELSE IF state = STOPPING THEN start_Stopping
     ELSE \E status \in wifi_error : start_Initialize(status)
  /\ UNCHANGED << flags, callbacks, pcCaller, pcLooper, looperQueue,
                  isStartedRet, tr, iterVars, workerAccessed, cycleVars >>

(***************************************************************************)
(* FinishHalCleanup, called by stop() and by the posted closure.           *)
(***************************************************************************)
\* line 136 with || for &&
BothCompleted_Either ==
  ~awaiting_hal_cleanup_command \/ ~awaiting_hal_event_loop_termination

\* line 136 without the negations
BothCompleted_FlagsSet ==
  awaiting_hal_cleanup_command /\ awaiting_hal_event_loop_termination

\* line 136 without the event loop's flag
BothCompleted_CleanupOnly == ~awaiting_hal_cleanup_command

\* line 136
BothCompleted ==
  ~awaiting_hal_cleanup_command /\ ~awaiting_hal_event_loop_termination

\* lines 135-143; by is the caller, "stop" or "task"
FinishHalCleanup(by) ==
  IF BothCompleted
    THEN /\ state' = STOPPED
         /\ lastBroadcast' = Broadcast("onStop", NoReason)
         /\ finalizedBy' = Append(finalizedBy, by)
    ELSE /\ lastBroadcast' = NoBroadcast
         /\ UNCHANGED << state, finalizedBy >>

(***************************************************************************)
(* stop().                                                                 *)
(***************************************************************************)
\* lines 101-105 without the broadcast
stop_Stopped_Silent ==
  /\ lastBroadcast' = NoBroadcast
  /\ op' = "stop_stopped"
  /\ halStatus' = "none"
  /\ UNCHANGED << state, flags, pcCaller, halCleanupCalls, nCleanup,
                  cycleVars >>

\* lines 101-105
stop_Stopped ==
  /\ lastBroadcast' = Broadcast("onStop", NoReason)
  /\ op' = "stop_stopped"
  /\ halStatus' = "none"
  /\ UNCHANGED << state, flags, pcCaller, halCleanupCalls, nCleanup,
                  cycleVars >>

\* lines 106-108 calling wifi_cleanup again
stop_Stopping_CleansAgain ==
  /\ lastBroadcast' = NoBroadcast
  /\ op' = "stop_stopping"
  /\ halStatus' = "none"
  /\ stopsWhileStopping' = TRUE
  /\ halCleanupCalls' = halCleanupCalls + 1
  /\ nCleanup' = nCleanup + 1
  /\ UNCHANGED << state, flags, pcCaller, cleanupReturned, eventLoopTaskRan,
                  firstArrival, finalizedBy, stopFinishRan, taskFinishRan >>

\* lines 106-108
stop_Stopping ==
  /\ lastBroadcast' = NoBroadcast
  /\ op' = "stop_stopping"
  /\ halStatus' = "none"
  /\ stopsWhileStopping' = TRUE
  /\ UNCHANGED << state, flags, pcCaller, halCleanupCalls, nCleanup,
                  cleanupReturned, eventLoopTaskRan, firstArrival, finalizedBy,
                  stopFinishRan, taskFinishRan >>

\* lines 111-113 without the assignment to state_
stop_MarkStopping_StateKept ==
  /\ awaiting_hal_cleanup_command' = TRUE
  /\ awaiting_hal_event_loop_termination' = TRUE
  /\ UNCHANGED state

\* lines 111-113
stop_MarkStopping ==
  /\ awaiting_hal_cleanup_command' = TRUE
  /\ awaiting_hal_event_loop_termination' = TRUE
  /\ state' = STOPPING

\* lines 110-114, up to the entry into wifi_cleanup
stop_Cleanup ==
  /\ stop_MarkStopping
  /\ halCleanupCalls' = halCleanupCalls + 1
  /\ nCleanup' = nCleanup + 1
  /\ pcCaller' = "wifi_cleanup"
  /\ lastBroadcast' = NoBroadcast
  /\ op' = "stop_cleanup"
  /\ halStatus' = "none"
  /\ cleanupReturned' = FALSE
  /\ eventLoopTaskRan' = FALSE
  /\ firstArrival' = "none"
  /\ finalizedBy' = <<>>
  /\ stopFinishRan' = FALSE
  /\ taskFinishRan' = FALSE
  /\ stopsWhileStopping' = FALSE

stop ==
  /\ pcCaller = "idle"
  /\ ~aborted
  /\ IF state = STOPPED THEN stop_Stopped
     ELSE IF state = STOPPING THEN stop_Stopping
     ELSE stop_Cleanup
  /\ UNCHANGED << callbacks, event_loop_thread, pcWorker, pcLooper,
                  looperQueue, aborted, isStartedRet, tr, iterVars, workerAccessed, liveWorkers, nInit, nSpawn >>

\* line 114: the engine returns from wifi_cleanup
wifi_cleanup_returns ==
  /\ pcCaller = "wifi_cleanup"
  /\ ~aborted
  /\ pcCaller' = "stop_115"
  /\ cleanupReturned' = TRUE
  /\ op' = "wifi_cleanup_returns"
  /\ halStatus' = "none"
  /\ lastBroadcast' = NoBroadcast
  /\ UNCHANGED << state, flags, callbacks, event_loop_thread, pcWorker,
                  pcLooper, looperQueue, halCleanupCalls, aborted,
                  isStartedRet, tr, iterVars, workerAccessed, liveWorkers, counters, eventLoopTaskRan, firstArrival,
                  finalizedBy, stopFinishRan, taskFinishRan,
                  stopsWhileStopping >>

\* line 115
stop_ClearFlag ==
  /\ pcCaller = "stop_115"
  /\ ~aborted
  /\ awaiting_hal_cleanup_command' = FALSE
  /\ pcCaller' = "stop_117"
  /\ firstArrival' = IF firstArrival = "none" THEN "stop" ELSE firstArrival
  /\ op' = "stop_clear_flag"
  /\ halStatus' = "none"
  /\ lastBroadcast' = NoBroadcast
  /\ UNCHANGED << state, awaiting_hal_event_loop_termination, callbacks,
                  event_loop_thread, pcWorker, pcLooper, looperQueue,
                  halCleanupCalls, aborted, isStartedRet, tr, iterVars, workerAccessed, liveWorkers, counters,
                  cleanupReturned, eventLoopTaskRan, finalizedBy,
                  stopFinishRan, taskFinishRan, stopsWhileStopping >>

\* lines 117-118
stop_Finish ==
  /\ pcCaller = "stop_117"
  /\ ~aborted
  /\ FinishHalCleanup("stop")
  /\ pcCaller' = "idle"
  /\ stopFinishRan' = TRUE
  /\ op' = "stop_finish"
  /\ halStatus' = "none"
  /\ UNCHANGED << flags, callbacks, event_loop_thread, pcWorker, pcLooper,
                  looperQueue, halCleanupCalls, aborted, isStartedRet, tr, iterVars, workerAccessed, liveWorkers,
                  counters, cleanupReturned, eventLoopTaskRan, firstArrival,
                  taskFinishRan, stopsWhileStopping >>

(***************************************************************************)
(* The worker thread: DoHalEventLoop.                                      *)
(***************************************************************************)
workerFrame ==
  UNCHANGED << flags, callbacks, pcCaller, pcLooper, halCleanupCalls,
               isStartedRet, tr, iterVars, counters, cycleVars >>

\* line 123: wifi_event_loop returns after wifi_cleanup was called
wifi_event_loop_returns ==
  /\ pcWorker = "wifi_event_loop"
  /\ ~aborted
  /\ halCleanupCalls > 0
  /\ pcWorker' = "loop_124"
  /\ op' = "wifi_event_loop_returns"
  /\ halStatus' = "none"
  /\ lastBroadcast' = NoBroadcast
  /\ UNCHANGED << state, event_loop_thread, looperQueue, aborted >>
  /\ workerFrame
  /\ UNCHANGED << workerAccessed, liveWorkers >>

\* line 123: wifi_event_loop returns though wifi_cleanup was never called
wifi_event_loop_returns_unasked ==
  /\ pcWorker = "wifi_event_loop"
  /\ ~aborted
  /\ halCleanupCalls = 0
  /\ pcWorker' = "loop_124"
  /\ op' = "wifi_event_loop_returns_unasked"
  /\ halStatus' = "none"
  /\ lastBroadcast' = NoBroadcast
  /\ UNCHANGED << state, event_loop_thread, looperQueue, aborted >>
  /\ workerFrame
  /\ UNCHANGED << workerAccessed, liveWorkers >>

\* line 124 comparing with STOPPED
LoopExitExpected_NotStopped == state # STOPPED

\* line 124
LoopExitExpected == state = STOPPING

\* lines 124-127: LOG(FATAL) aborts the process
DoHalEventLoop_Check ==
  /\ pcWorker = "loop_124"
  /\ ~aborted
  /\ IF LoopExitExpected
       THEN /\ pcWorker' = "loop_128"
            /\ op' = "loop_check_ok"
            /\ UNCHANGED aborted
       ELSE /\ aborted' = TRUE
            /\ op' = "loop_fatal"
            /\ UNCHANGED pcWorker
  /\ lastBroadcast' = NoBroadcast
  /\ halStatus' = "none"
  /\ UNCHANGED << state, event_loop_thread, looperQueue >>
  /\ workerFrame
  /\ workerAccessed' = workerAccessed \cup {"state_"}
  /\ UNCHANGED liveWorkers

\* line 128
DoHalEventLoop_Detach ==
  /\ pcWorker = "loop_128"
  /\ ~aborted
  /\ event_loop_thread' = FALSE
  /\ pcWorker' = "loop_129"
  /\ op' = "loop_detach"
  /\ halStatus' = "none"
  /\ lastBroadcast' = NoBroadcast
  /\ UNCHANGED << state, looperQueue, aborted >>
  /\ workerFrame
  /\ workerAccessed' = workerAccessed \cup {"event_loop_thread_"}
  /\ UNCHANGED liveWorkers

\* lines 129-133 and PostTask, lines 152-156
DoHalEventLoop_PostTask ==
  /\ pcWorker = "loop_129"
  /\ ~aborted
  /\ looperQueue' = looperQueue + 1
  /\ pcWorker' = "none"
  /\ op' = "loop_post_task"
  /\ halStatus' = "none"
  /\ lastBroadcast' = NoBroadcast
  /\ UNCHANGED << state, event_loop_thread, aborted >>
  /\ workerFrame
  /\ liveWorkers' = liveWorkers - 1
  /\ UNCHANGED workerAccessed

(***************************************************************************)
(* The looper thread: the closure posted at lines 129-132.                 *)
(***************************************************************************)
\* The looper executes the closures posted to it one at a time, in post
\* order, on its own thread: it picks up the next one whatever the caller
\* thread and the worker thread are doing.
LooperThreadRuns == TRUE

\* handleMessage (lines 34-36) and line 130
Task_ClearFlag ==
  /\ pcLooper = "idle"
  /\ looperQueue > 0
  /\ LooperThreadRuns
  /\ ~aborted
  /\ looperQueue' = looperQueue - 1
  /\ awaiting_hal_event_loop_termination' = FALSE
  /\ pcLooper' = "task_131"
  /\ eventLoopTaskRan' = TRUE
  /\ firstArrival' = IF firstArrival = "none" THEN "task" ELSE firstArrival
  /\ op' = "task_clear_flag"
  /\ halStatus' = "none"
  /\ lastBroadcast' = NoBroadcast
  /\ UNCHANGED << state, awaiting_hal_cleanup_command, callbacks,
                  event_loop_thread, pcCaller, pcWorker, halCleanupCalls,
                  aborted, isStartedRet, tr, iterVars, workerAccessed, liveWorkers, counters, cleanupReturned,
                  finalizedBy, stopFinishRan, taskFinishRan,
                  stopsWhileStopping >>

\* lines 131 and 136-141: the closure's FinishHalCleanup call.  When it
\* finalizes, the step invokes the observers of callbacks_ and leaves the
\* looper thread inside the range-for until Task_LoopEnd.
Task_Finish ==
  /\ pcLooper = "task_131"
  /\ ~aborted
  /\ FinishHalCleanup("task")
  /\ pcLooper' = IF BothCompleted THEN "task_139" ELSE "idle"
  /\ loopCalls' = IF BothCompleted THEN Broadcast("onStop", NoReason).calls
                                    ELSE loopCalls
  /\ iterationRaced' = FALSE
  /\ taskFinishRan' = (taskFinishRan \/ eventLoopTaskRan)
  /\ op' = "task_finish"
  /\ halStatus' = "none"
  /\ UNCHANGED << flags, callbacks, event_loop_thread, pcCaller, pcWorker,
                  looperQueue, halCleanupCalls, aborted, isStartedRet, tr,
                  workerAccessed, liveWorkers,
                  counters, cleanupReturned, eventLoopTaskRan, firstArrival,
                  stopFinishRan, stopsWhileStopping >>

\* What the range-for can do once an insert has raced with it (a data race
\* on the container): end normally, reach observers again or late through
\* the relinked nodes, or fault.
LoopOutcomes ==
  { [ extra |-> e, fault |-> f ] : e \in SUBSET callbacks, f \in BOOLEAN }

\* lines 139-142: the range-for of the closure's FinishHalCleanup ends
Task_LoopEnd ==
  /\ pcLooper = "task_139"
  /\ ~aborted
  /\ pcLooper' = "idle"
  /\ \E out \in LoopOutcomes :
       /\ (~iterationRaced) => (out.extra = {} /\ ~out.fault)
       /\ out.fault => out.extra = {}
       /\ loopCalls' = [ o \in Observers |->
                          loopCalls[o] + (IF o \in out.extra THEN 1 ELSE 0) ]
       /\ aborted' = out.fault
  /\ iterationRaced' = FALSE
  /\ op' = "task_loop_end"
  /\ halStatus' = "none"
  /\ lastBroadcast' = NoBroadcast
  /\ UNCHANGED << state, flags, callbacks, event_loop_thread, pcCaller,
                  pcWorker, looperQueue, halCleanupCalls, isStartedRet, tr,
                  workerAccessed, liveWorkers, counters, cycleVars >>

(***************************************************************************)
(* The specification.                                                      *)
(***************************************************************************)
Next ==
  \/ \E callback \in Observers : registerEventCallback(callback)
  \/ isStarted
  \/ start
  \/ stop
  \/ wifi_cleanup_returns
  \/ stop_ClearFlag
  \/ stop_Finish
  \/ wifi_event_loop_returns
  \/ wifi_event_loop_returns_unasked
  \/ DoHalEventLoop_Check
  \/ DoHalEventLoop_Detach
  \/ DoHalEventLoop_PostTask
  \/ Task_ClearFlag
  \/ Task_Finish
  \/ Task_LoopEnd

Spec == Init /\ [][Next]_vars

TypeOK ==
  /\ state \in State
  /\ awaiting_hal_cleanup_command \in BOOLEAN
  /\ awaiting_hal_event_loop_termination \in BOOLEAN
  /\ callbacks \subseteq Observers
  /\ event_loop_thread \in BOOLEAN
  /\ pcCaller \in {"idle", "wifi_cleanup", "stop_115", "stop_117"}
  /\ pcWorker \in {"none", "wifi_event_loop", "loop_124", "loop_128", "loop_129"}
  /\ pcLooper \in {"idle", "task_131", "task_139"}
  /\ loopCalls \in [ Observers -> 0..2 ]
  /\ iterationRaced \in BOOLEAN
  /\ looperQueue \in 0..MaxCalls
  /\ nInit \in 0..MaxCalls /\ nSpawn \in 0..MaxCalls /\ nCleanup \in 0..MaxCalls
  /\ halCleanupCalls \in 0..1
  /\ halStatus \in wifi_error \cup {"none"}
  /\ aborted \in BOOLEAN
  /\ Len(finalizedBy) <= 2
  /\ workerAccessed \subseteq {"state_", "event_loop_thread_"}
  /\ liveWorkers \in 0..2
  /\ tr = TrIdle

(***************************************************************************)
(* Stop cycles.  A stop cycle begins when stop() finds the state STARTED;  *)
(* the history variables describe the current one.                         *)
(***************************************************************************)
\* the FinishHalCleanup calls of the cycle that set STOPPED and broadcast onStop
finalizeCount == Len(finalizedBy)

\* both completions of the cycle have made their FinishHalCleanup call
BothFinishCallsMade == stopFinishRan /\ taskFinishRan

\* the completion that cleared its flag second
secondArrival ==
  IF firstArrival = "stop" THEN "task"
  ELSE IF firstArrival = "task" THEN "stop" ELSE "none"

(***************************************************************************)
(* C1. No double-finalize: in a stop cycle begun by stop() in STARTED, for *)
(* every interleaving of stop()'s steps after wifi_cleanup returns (clear  *)
(* the cleanup flag, FinishHalCleanup) with the posted closure's steps     *)
(* (clear the event-loop flag, FinishHalCleanup), onStop is broadcast      *)
(* exactly once - never twice, and not zero times once both have made      *)
(* their FinishHalCleanup call - and by the completion that came second.   *)
(***************************************************************************)
C1_ExactlyOneOnStop ==
  /\ finalizeCount <= 1
  /\ BothFinishCallsMade => /\ finalizeCount = 1
                            /\ finalizedBy[1] = secondArrival

\* the race of C1: both FinishHalCleanup calls of one cycle broadcast onStop
C1_DoubleOnStop == finalizedBy = << "stop", "task" >>

(***************************************************************************)
(* What a step is, by the handler it belongs to.                           *)
(***************************************************************************)
\* the step is a call of start()
StartOps ==
  { "start_started", "start_stopping", "start_init_failed", "start_ok",
    "start_terminate" }
\* the step is a call of stop(), up to its return or its wifi_cleanup call
StopOps == { "stop_stopped", "stop_stopping", "stop_cleanup" }
\* the step is a FinishHalCleanup call
FinishOps == { "stop_finish", "task_finish" }

\* the last step invoked every registered observer once with ev(reason), and
\* nobody else
DeliveredOnce(b, ev, reason, registered) ==
  /\ b.ev = ev
  /\ b.reason = reason
  /\ \A o \in Observers : b.calls[o] = IF o \in registered THEN 1 ELSE 0

C4_StartRejectedWhileStopping ==
  [][ (op' \in StartOps /\ state = STOPPING) =>
        /\ lastBroadcast'.ev = "onStartFailure"
        /\ lastBroadcast'.reason.reason = "NOT_AVAILABLE"
        /\ \A o \in Observers :
             lastBroadcast'.calls[o] = IF o \in callbacks THEN 1 ELSE 0
        /\ nInit' = nInit
        /\ nSpawn' = nSpawn
        /\ pcWorker' = pcWorker
        /\ event_loop_thread' = event_loop_thread
        /\ state' = STOPPING
        /\ flags' = flags ]_vars

C4_Witness ==
  /\ op = "start_stopping"
  /\ state = STOPPING
  /\ callbacks = Observers
  /\ lastBroadcast.ev = "onStartFailure"

(***************************************************************************)
(* C5. Engine initialization failure: when start() is called in STOPPED    *)
(* and wifi_initialize returns a status other than WIFI_SUCCESS, no worker *)
(* thread is spawned, the state stays STOPPED (isStarted() is false), no   *)
(* onStart is broadcast, and each registered observer gets onStartFailure  *)
(* once, with the translation of the status as its reason (NOT_SUPPORTED   *)
(* and the original description for WIFI_ERROR_NOT_SUPPORTED).             *)
(***************************************************************************)
C5_InitFailure ==
  [][ (op' \in StartOps /\ state = STOPPED /\ halStatus' # WIFI_SUCCESS) =>
        /\ nSpawn' = nSpawn
        /\ pcWorker' = pcWorker
        /\ event_loop_thread' = event_loop_thread
        /\ state' = STOPPED
        /\ ~isStartedValue'
        /\ DeliveredOnce(lastBroadcast', "onStartFailure",
                         CreateFailureReasonLegacyError(
                           halStatus', <<"Failed to initialize HAL">>),
                         callbacks)
        /\ halStatus' = "WIFI_ERROR_NOT_SUPPORTED" =>
             lastBroadcast'.reason =
               [ reason |-> "NOT_SUPPORTED",
                 description |-> <<"Failed to initialize HAL">> ] ]_vars

C5_Witness ==
  /\ op = "start_init_failed"
  /\ halStatus = "WIFI_ERROR_NOT_SUPPORTED"
  /\ callbacks = Observers
  /\ state = STOPPED

(***************************************************************************)
(* C6. start() idempotence: a start() call in state STARTED broadcasts     *)
(* onStart to the observers again, does not call wifi_initialize, spawns   *)
(* no further worker thread and leaves the state STARTED.                  *)
(***************************************************************************)
C6_StartWhileStarted ==
  [][ (op' \in StartOps /\ state = STARTED) =>
        /\ DeliveredOnce(lastBroadcast', "onStart", NoReason, callbacks)
        /\ nInit' = nInit
        /\ nSpawn' = nSpawn
        /\ pcWorker' = pcWorker
        /\ event_loop_thread' = event_loop_thread
        /\ state' = STARTED ]_vars

\* a second start() in STARTED, after the one that started the service
C6_Witness ==
  /\ op = "start_started"
  /\ state = STARTED
  /\ callbacks = Observers
  /\ nInit = 1
  /\ nSpawn = 1

C8_StopWhileStopped ==
  [][ (op' \in StopOps /\ state = STOPPED) =>
        /\ DeliveredOnce(lastBroadcast', "onStop", NoReason, callbacks)
        /\ nCleanup' = nCleanup
        /\ nInit' = nInit
        /\ halCleanupCalls' = halCleanupCalls
        /\ flags' = flags
        /\ looperQueue' = looperQueue
        /\ pcCaller' = "idle"
        /\ state' = STOPPED ]_vars

\* stop() on a service that was never started
C8_Witness ==
  /\ op = "stop_stopped"
  /\ state = STOPPED
  /\ callbacks = Observers
  /\ nInit = 0
  /\ lastBroadcast.ev = "onStop"

(***************************************************************************)
(* C9. Consistency violation is fatal: when wifi_event_loop has returned   *)
(* and the worker finds the state other than STOPPING, the process is      *)
(* aborted: the worker posts no closure, no pending flag is cleared and    *)
(* nothing is broadcast, then or afterwards.                               *)
(***************************************************************************)
C9_UnexpectedLoopExitIsFatal ==
  [][ /\ (op' \in {"loop_check_ok", "loop_fatal"} /\ state # STOPPING) =>
           /\ aborted'
           /\ pcWorker' = "loop_124"
           /\ looperQueue' = looperQueue
           /\ flags' = flags
           /\ state' = state
           /\ lastBroadcast'.ev = "none"
      /\ aborted => UNCHANGED codeVars ]_vars

\* the event loop returned while the service was STARTED
C9_Witness ==
  /\ op = "loop_fatal"
  /\ aborted
  /\ state = STARTED
  /\ looperQueue = 0

(***************************************************************************)
(* C10. isStarted() returns true exactly when the state is STARTED or      *)
(* STOPPING and false exactly when it is STOPPED; so it is true after a    *)
(* successful start() and stays true, through STOPPING, until a            *)
(* FinishHalCleanup call that broadcasts onStop.                           *)
(***************************************************************************)
C10_IsStarted ==
  [][ /\ op' = "isStarted" =>
           /\ isStartedRet' = (state \in {STARTED, STOPPING})
           /\ (~isStartedRet') = (state = STOPPED)
      /\ op' = "start_ok" => isStartedValue'
      /\ (isStartedValue /\ ~isStartedValue') =>
           (op' \in FinishOps /\ lastBroadcast'.ev = "onStop") ]_vars

\* isStarted() called during STOPPING
C10_Witness ==
  /\ op = "isStarted"
  /\ state = STOPPING
  /\ isStartedRet = TRUE

(***************************************************************************)
(* CreateFailureReasonLegacyError on its own: every engine status with     *)
(* every description of at most MaxDescLen characters.                     *)
(***************************************************************************)
DescChars == { "d", "e", NUL }
Descriptions == UNION { [ 1..n -> DescChars ] : n \in 0..MaxDescLen }

InitTranslate ==
  /\ ServiceInit
  /\ tr \in [ error : wifi_error, desc : Descriptions,
              result : {NoReason}, done : {FALSE} ]

Translate ==
  /\ tr.error # "none"
  /\ ~tr.done
  /\ tr' = [ tr EXCEPT !.result = CreateFailureReasonLegacyError(tr.error, tr.desc),
                       !.done = TRUE ]
  /\ UNCHANGED << codeVars, obsVars, cycleVars, workerAccessed, liveWorkers, iterVars >>

SpecTranslate == InitTranslate /\ [][Translate]_vars

\* the table of the failure-reason translation, as the claim gives it
TableReason(error, d) ==
  CASE error \in {"WIFI_ERROR_UNINITIALIZED", "WIFI_ERROR_NOT_AVAILABLE"} ->
         [ reason |-> "NOT_AVAILABLE", description |-> d ]
    [] error = "WIFI_ERROR_NOT_SUPPORTED" ->
         [ reason |-> "NOT_SUPPORTED", description |-> d ]
    [] error \in {"WIFI_ERROR_INVALID_ARGS", "WIFI_ERROR_INVALID_REQUEST_ID"} ->
         [ reason |-> "INVALID_ARGS", description |-> d ]
    [] error = "WIFI_ERROR_TIMED_OUT" ->
         [ reason |-> "UNKNOWN", description |-> d \o <<", timed out">> ]
    [] error = "WIFI_ERROR_TOO_MANY_REQUESTS" ->
         [ reason |-> "UNKNOWN", description |-> d \o <<", too many requests">> ]
    [] error = "WIFI_ERROR_OUT_OF_MEMORY" ->
         [ reason |-> "UNKNOWN", description |-> d \o <<", out of memory">> ]
    [] OTHER ->
         [ reason |-> "UNKNOWN", description |-> <<"unknown">> ]

\* no character of d is NUL
NulFree(d) == \A i \in 1..Len(d) : d[i] # NUL

(***************************************************************************)
(* C12. Failure translation table: for every engine status and every       *)
(* description d, CreateFailureReasonLegacyError returns the category and  *)
(* the description of the table: d itself, d with the literal suffix, or   *)
(* "unknown" with d discarded.                                             *)
(***************************************************************************)
C12_TranslationTable ==
  tr.done => tr.result = TableReason(tr.error, tr.desc)

\* what does hold: the table, for the descriptions without a NUL character
C12_TableForNulFree ==
  (tr.done /\ NulFree(tr.desc)) => tr.result = TableReason(tr.error, tr.desc)

(***************************************************************************)
(* C14. Worker hand-off: upon event-loop exit the worker thread itself     *)
(* never reads or writes coordinator state (the state enum, the pending    *)
(* flags, the observer set, the thread handle); every such access happens  *)
(* inside the task it posts to the dispatcher.                             *)
(***************************************************************************)
C14_WorkerTouchesNothing == workerAccessed = {}

(***************************************************************************)
(* C13. At most one worker thread: after any sequence of start()/stop()    *)
(* calls and engine/dispatcher steps, restart cycles included, at most one *)
(* worker thread is live (constructed and not yet finished posting its     *)
(* completion task); a new worker is spawned only by a successful start()  *)
(* from STOPPED.                                                           *)
(***************************************************************************)
C13_AtMostOneWorker ==
  [][ /\ liveWorkers' <= 1
      /\ liveWorkers' > liveWorkers => (state = STOPPED /\ op' = "start_ok")
    ]_vars

(***************************************************************************)
(* C15. Broadcast iteration safety: the observer set is never modified by  *)
(* registerEventCallback while a broadcast is iterating over it; a         *)
(* registration on the caller thread cannot interleave with the onStop     *)
(* broadcast that the closure run by the looper performs.                  *)
(***************************************************************************)
C15_NoInsertDuringBroadcast ==
  [][ pcLooper = "task_139" => callbacks' = callbacks ]_vars

(***************************************************************************)
(* C11. Observer delivery: registerEventCallback adds the observer and     *)
(* invokes nothing; every broadcast invokes each registered observer       *)
(* exactly once and no other observer; the onStop loop of the closure,     *)
(* when it ends, has invoked no observer twice, none that is not           *)
(* registered, and every observer that was registered when it began.       *)
(***************************************************************************)
C11_ObserverDelivery ==
  [][ /\ op' = "registerEventCallback" =>
           /\ lastBroadcast' = NoBroadcast
           /\ callbacks \subseteq callbacks'
      /\ lastBroadcast'.ev # "none" =>
           \A o \in Observers :
             lastBroadcast'.calls[o] = (IF o \in callbacks THEN 1 ELSE 0)
      /\ op' = "task_loop_end" =>
           \A o \in Observers :
             /\ loopCalls[o] <= loopCalls'[o]
             /\ loopCalls'[o] <= 1
             /\ o \notin callbacks' => loopCalls'[o] = 0
    ]_vars

(***************************************************************************)
(* C16. Restart after stopping: once a stop cycle has finalized, a start() *)
(* whose wifi_initialize succeeds behaves as on a fresh service: it spawns *)
(* the one worker thread, sets the state to STARTED and broadcasts         *)
(* onStart; and no FinishHalCleanup call left over from the earlier cycle  *)
(* changes the state or broadcasts in the new cycle.                       *)
(***************************************************************************)
C16_RestartLikeFresh ==
  [][ /\ (op' \in StartOps /\ state = STOPPED /\ halStatus' = WIFI_SUCCESS) =>
           /\ op' = "start_ok"
           /\ state' = STARTED
           /\ DeliveredOnce(lastBroadcast', "onStart", NoReason, callbacks)
           /\ nSpawn' = nSpawn + 1
           /\ liveWorkers' = 1
      /\ (op' \in FinishOps /\ state = STARTED) =>
           /\ state' = STARTED
           /\ lastBroadcast' = NoBroadcast
    ]_vars

(***************************************************************************)
(* C18. Transition discipline: the state changes only STOPPED -> STARTED   *)
(* (a successful start()), STARTED -> STOPPING (stop()) and STOPPING ->    *)
(* STOPPED (a FinishHalCleanup call); never STARTED -> STOPPED, STOPPED -> *)
(* STOPPING or STOPPING -> STARTED.                                        *)
(***************************************************************************)
C18_TransitionDiscipline ==
  [][ state' # state =>
        \/ state = STOPPED /\ state' = STARTED /\ op' = "start_ok"
        \/ state = STARTED /\ state' = STOPPING /\ op' = "stop_cleanup"
        \/ state = STOPPING /\ state' = STOPPED /\ op' \in FinishOps
    ]_vars

(***************************************************************************)
(* C19. Engine call pairing: successful wifi_initialize calls and          *)
(* wifi_cleanup calls alternate, starting with wifi_initialize: cleanup is *)
(* called only with one successful initialize not yet cleaned up, and      *)
(* initialize is called only with every earlier successful initialize      *)
(* cleaned up and the state back to STOPPED.                               *)
(***************************************************************************)
C19_EngineCallPairing ==
  [][ /\ nCleanup' > nCleanup => nSpawn = nCleanup + 1
      /\ nInit' > nInit => (nSpawn = nCleanup /\ state = STOPPED)
    ]_vars

(***************************************************************************)
(* The service with an engine that keeps its contract: wifi_event_loop     *)
(* returns only after wifi_cleanup was called.                             *)
(***************************************************************************)
NextWellBehaved ==
  \/ \E callback \in Observers : registerEventCallback(callback)
  \/ isStarted
  \/ start
  \/ stop
  \/ wifi_cleanup_returns
  \/ stop_ClearFlag
  \/ stop_Finish
  \/ wifi_event_loop_returns
  \/ DoHalEventLoop_Check
  \/ DoHalEventLoop_Detach
  \/ DoHalEventLoop_PostTask
  \/ Task_ClearFlag
  \/ Task_Finish
  \/ Task_LoopEnd

SpecWellBehaved == Init /\ [][NextWellBehaved]_vars

Progress ==
  /\ WF_vars(wifi_cleanup_returns)
  /\ WF_vars(stop_ClearFlag)
  /\ WF_vars(stop_Finish)
  /\ WF_vars(wifi_event_loop_returns)
  /\ WF_vars(DoHalEventLoop_Check)
  /\ WF_vars(DoHalEventLoop_Detach)
  /\ WF_vars(DoHalEventLoop_PostTask)
  /\ WF_vars(Task_ClearFlag)
  /\ WF_vars(Task_Finish)
  /\ WF_vars(Task_LoopEnd)

LiveSpec == Init /\ [][NextWellBehaved]_vars /\ Progress

\* the stop cycle has finalized: state STOPPED and onStop broadcast
StopCompleted == state = STOPPED /\ finalizeCount >= 1

====
